---- MODULE Spec2Model ----
(***************************************************************************)
(* Panel layout engine of the three-panel client: the useResizablePanels   *)
(* hook (frontend/src/hooks/useResizablePanels.js) as it is used by App    *)
(* (useResizablePanels(320, 420)), together with the part of the DOM it    *)
(* writes: the document's mousemove/mouseup listeners and the inline       *)
(* cursor / user-select styles of the body.                                *)
(*                                                                         *)
(* React scheduling (React 18 root): a state update made in a discrete     *)
(* event (mousedown, mouseup, click) is rendered and committed before the  *)
(* next event is delivered, and the passive effects of that commit are     *)
(* flushed synchronously.  The commit and the effect flush are two steps   *)
(* of the model (effectPending is TRUE between them); no input event is    *)
(* delivered between the two.                                              *)
(*                                                                         *)
(* Around the hook, App (its document and chat state and its handlers) and *)
(* the stateful children it renders: ChatWindow (behind ChatPanel),        *)
(* FileUpload (behind Sidebar) and PDFViewer (behind DocumentViewer).  A   *)
(* child that a render takes out of the tree loses its state; the promises *)
(* and timers it started run on, and their state updates are dropped.  The *)
(* document store and the conversation service are the environment: each   *)
(* pending call settles in a step of its own, resolved or rejected.        *)
(***************************************************************************)
EXTENDS Integers, FiniteSets, Sequences, TLC

VARIABLES
  hook,           \* the useState cells of the hook
  document,       \* listeners registered on the document, body inline styles
  mounted,        \* the component that owns the hook is mounted
  effectPending,  \* a commit changed the effect's deps; effect not yet flushed
  curMove,        \* handleMouseMove of the committed render (useCallback)
  effMove,        \* handleMouseMove captured by the last effect's cleanup
  viewerStyle,    \* width style App passed to ViewerPanel in the committed render
  lastEvent,      \* history: the step that led to this state
  pre,            \* history: hook / document / mounted before that step
  sessionPrior,   \* history: body styles right before the open session's overrides
  dragFrom,       \* history: isResizing at the moment of the latest mousedown
  app,            \* the useState cells of App other than the hook's
  appCalls,       \* calls of App to the document store that have not settled
  chatWindow,     \* the useState cells of the ChatWindow in the tree
  chatCalls,      \* calls of ChatWindow to the conversation service, not settled
  sendCount,      \* history: number of requests sent to the conversation service
  fileUpload,     \* the useState cells of the FileUpload in the tree
  uploads,        \* onDrop invocations that have not run to their end
  intervals,      \* running setInterval timers of onDrop invocations
  pdfViewer,      \* the useState cells of the PDFViewer in the tree, its Document
  preApp,         \* history: the component state before a handleSend or delete step
  shown           \* history: the messages a layout toggle took out of the tree

layoutVars == <<hook, document, mounted, effectPending, curMove, effMove,
                viewerStyle, sessionPrior, dragFrom>>

appVars == <<app, appCalls, chatWindow, chatCalls, sendCount, fileUpload, uploads,
             intervals, pdfViewer>>

vars == <<hook, document, mounted, effectPending, curMove, effMove, viewerStyle,
          lastEvent, pre, sessionPrior, dragFrom, app, appCalls, chatWindow,
          chatCalls, sendCount, fileUpload, uploads, intervals, pdfViewer, preApp,
          shown>>

null == "null"

Panels == {"sidebar", "chat"}

\* ---- program constants ------------------------------------------------
InitialSidebarWidth == 320
InitialChatWidth == 420
MinSidebarWidth == 200
MaxSidebarWidth == 500
MinChatWidth == 300
MaxChatWidth == 700
CollapsedChatWidth == 50

\* ---- inputs -------------------------------------------------------------
\* e.clientX of a mouse event and window.innerWidth at that moment
PointerXs == {-50, 199, 200, 350, 500, 501, 700, 900, 1000, 9999}
ViewportWidths == {1000, 1200}

\* ---- the DOM the hook touches --------------------------------------------
\* EventTarget.addEventListener: a (type, callback) pair is registered once
addEventListener(d, type, h) ==
  [d EXCEPT ![type] = @ \cup {h}]

removeEventListener(d, type, h) ==
  [d EXCEPT ![type] = @ \ {h}]

\* inline style of a freshly loaded body: nothing set
UnsetStyle == ""

\* ---- the hook ------------------------------------------------------------
\* (variant) the hook is called without arguments: its default chat width applies
InitialHook_HookDefaults ==
  [sidebarWidth |-> InitialSidebarWidth,
   chatWidth |-> 400,
   isChatCollapsed |-> FALSE,
   isViewerMaximized |-> FALSE,
   isResizing |-> null]

\* useState initial values
InitialHook ==
  [sidebarWidth |-> InitialSidebarWidth,
   chatWidth |-> InitialChatWidth,
   isChatCollapsed |-> FALSE,
   isViewerMaximized |-> FALSE,
   isResizing |-> null]

\* handleMouseUp is created once (useCallback with no deps)
handleMouseUpRef == "handleMouseUp"

\* a handleMouseMove function object: its identity and the isResizing it closes over
NoHandler == [id |-> -1, isResizing |-> null]

UsedIds == {h.id : h \in document.mousemove} \cup {curMove.id, effMove.id}

\* identity of a newly allocated function object: any identity not in use
FreshId ==
  CHOOSE n \in 0..(Cardinality(UsedIds) + 1) :
    /\ n \notin UsedIds
    /\ \A m \in 0..(n - 1) : m \in UsedIds

\* useCallback(..., [isResizing]): a new function when isResizing changed
useCallbackMouseMove(old, new) ==
  IF new.isResizing = old.isResizing
    THEN curMove
    ELSE [id |-> FreshId, isResizing |-> new.isResizing]

\* (variant) starting a drag also expands the chat panel
handleMouseDown_ExpandsChat(s, panelType) ==
  [s EXCEPT !.isResizing = panelType, !.isChatCollapsed = FALSE]

\* (variant) a mousedown is ignored while a drag is active
handleMouseDown_KeepActive(s, panelType) ==
  IF s.isResizing # null THEN s ELSE [s EXCEPT !.isResizing = panelType]

handleMouseDown(s, panelType) ==
  [s EXCEPT !.isResizing = panelType]

\* (variant) the upper bounds are not tested
handleMouseMove_NoUpperBound(s, h, clientX, innerWidth) ==
  IF h = "sidebar"
    THEN IF clientX >= MinSidebarWidth THEN [s EXCEPT !.sidebarWidth = clientX] ELSE s
  ELSE IF h = "chat"
    THEN IF innerWidth - clientX >= MinChatWidth
           THEN [s EXCEPT !.chatWidth = innerWidth - clientX]
           ELSE s
  ELSE s

\* h: the isResizing value the called function closed over
handleMouseMove(s, h, clientX, innerWidth) ==
  IF h = null THEN s
  ELSE IF h = "sidebar"
    THEN IF clientX >= MinSidebarWidth /\ clientX <= MaxSidebarWidth
           THEN [s EXCEPT !.sidebarWidth = clientX]
           ELSE s
  ELSE IF h = "chat"
    THEN IF innerWidth - clientX >= MinChatWidth /\ innerWidth - clientX <= MaxChatWidth
           THEN [s EXCEPT !.chatWidth = innerWidth - clientX]
           ELSE s
  ELSE s

\* (variant) the mouseup handler does not reset isResizing
handleMouseUp_NoReset(s) == s

\* (variant) the mouseup handler also puts the widths back to their initial values
handleMouseUp_ResetsWidths(s) ==
  [s EXCEPT !.isResizing = null,
            !.sidebarWidth = InitialSidebarWidth,
            !.chatWidth = InitialChatWidth]

handleMouseUp(s) ==
  [s EXCEPT !.isResizing = null]

\* (variant) the flag is set instead of flipped
toggleChatCollapse_SetsTrue(s) ==
  [s EXCEPT !.isChatCollapsed = TRUE]

toggleChatCollapse(s) ==
  [s EXCEPT !.isChatCollapsed = ~@]

\* (variant) maximizing or restoring also ends the drag
toggleViewerMaximize_EndsDrag(s) ==
  [s EXCEPT !.isViewerMaximized = ~@, !.isResizing = null]

\* (variant) restoring puts the widths back to the stored original widths
toggleViewerMaximize_ResetsWidths(s) ==
  IF s.isViewerMaximized
    THEN [s EXCEPT !.isViewerMaximized = FALSE,
                   !.sidebarWidth = InitialSidebarWidth,
                   !.chatWidth = InitialChatWidth]
    ELSE [s EXCEPT !.isViewerMaximized = TRUE]

toggleViewerMaximize(s) ==
  [s EXCEPT !.isViewerMaximized = ~@]

\* (variant) the collapsed rail is not taken into account
getViewerWidth_IgnoresCollapse(s) ==
  IF s.isViewerMaximized
    THEN <<"100%">>
    ELSE <<"calc(100% - ", s.sidebarWidth, "px - ", s.chatWidth, "px)">>

\* (variant) the maximized flag is not tested
getViewerWidth_IgnoresMaximize(s) ==
  LET chatWidthValue == IF s.isChatCollapsed THEN CollapsedChatWidth ELSE s.chatWidth
  IN <<"calc(100% - ", s.sidebarWidth, "px - ", chatWidthValue, "px)">>

\* the CSS width expression, as the pieces of the template literal
getViewerWidth(s) ==
  IF s.isViewerMaximized
    THEN <<"100%">>
    ELSE LET chatWidthValue == IF s.isChatCollapsed THEN CollapsedChatWidth
                                                     ELSE s.chatWidth
         IN <<"calc(100% - ", s.sidebarWidth, "px - ", chatWidthValue, "px)">>

\* (variant) the effect attaches the listeners but sets no cursor / user-select
useEffectBody_NoOverrides(d, isResizing, hmm) ==
  IF isResizing # null
    THEN addEventListener(addEventListener(d, "mousemove", hmm),
                          "mouseup", handleMouseUpRef)
    ELSE [removeEventListener(removeEventListener(d, "mousemove", hmm),
                              "mouseup", handleMouseUpRef)
            EXCEPT !.cursor = "default", !.userSelect = "auto"]

\* body of the listener effect
useEffectBody(d, isResizing, hmm) ==
  IF isResizing # null
    THEN [addEventListener(addEventListener(d, "mousemove", hmm),
                           "mouseup", handleMouseUpRef)
            EXCEPT !.cursor = "col-resize", !.userSelect = "none"]
    ELSE [removeEventListener(removeEventListener(d, "mousemove", hmm),
                              "mouseup", handleMouseUpRef)
            EXCEPT !.cursor = "default", !.userSelect = "auto"]

\* (variant) the cleanup removes the mouseup listener only
useEffectCleanup_KeepMouseMove(d, hmm) ==
  [removeEventListener(d, "mouseup", handleMouseUpRef)
     EXCEPT !.cursor = "default", !.userSelect = "auto"]

\* (variant) the cleanup resets the styles but removes no listener
useEffectCleanup_KeepListeners(d, hmm) ==
  [d EXCEPT !.cursor = "default", !.userSelect = "auto"]

\* (variant) the cleanup removes the listeners but leaves the styles
useEffectCleanup_KeepStyles(d, hmm) ==
  removeEventListener(removeEventListener(d, "mousemove", hmm),
                      "mouseup", handleMouseUpRef)

\* (variant) the effect returns no cleanup
useEffectCleanup_Missing(d, hmm) == d

\* function returned by the listener effect
useEffectCleanup(d, hmm) ==
  [removeEventListener(removeEventListener(d, "mousemove", hmm),
                       "mouseup", handleMouseUpRef)
     EXCEPT !.cursor = "default", !.userSelect = "auto"]

\* ---- what App renders ------------------------------------------------------
\* (variant) both Resizers are rendered unconditionally
ResizerRendered_Always(s, panelType) == TRUE

\* the Resizer of a divider is in the tree
ResizerRendered(s, panelType) ==
  IF panelType = "sidebar"
    THEN ~s.isViewerMaximized
    ELSE ~s.isViewerMaximized /\ ~s.isChatCollapsed

\* ChatPanel returns null when hidden, so its collapse button is not in the tree
CollapseButtonRendered(s) == ~s.isViewerMaximized

\* Tailwind w-12 (3rem) of the collapsed rail, in px at the default 16px root size
CollapsedRailWidth == 48

\* width at which ChatPanel renders the chat region (0: nothing rendered)
ChatPanelWidth(s) ==
  IF s.isViewerMaximized THEN 0
  ELSE IF s.isChatCollapsed THEN CollapsedRailWidth
  ELSE s.chatWidth

\* ---- values shared by the components of App -------------------------------------
\* the value of a property that was never set (a File object has no documentId)
undefined == "undefined"

\* JavaScript truthiness of a string-or-missing value (if (fileToDelete.documentId))
Truthy(v) == v \notin {undefined, null, ""}

\* a file object of uploadedFiles / selectedFile; NoFile is selectedFile = null
NoFile == [name |-> null, documentId |-> null]

\* String.prototype.toLowerCase on the letters of the extensions in use
LowerChar(c) ==
  CASE c = "P" -> "p" [] c = "D" -> "d" [] c = "F" -> "f"
    [] c = "T" -> "t" [] c = "X" -> "x" [] OTHER -> c

RECURSIVE toLowerCase(_)
toLowerCase(s) ==
  IF s = "" THEN ""
  ELSE LowerChar(SubSeq(s, 1, 1)) \o toLowerCase(SubSeq(s, 2, Len(s)))

endsWith(s, suffix) ==
  Len(s) >= Len(suffix) /\ SubSeq(s, Len(s) - Len(suffix) + 1, Len(s)) = suffix

\* String.prototype.trim
RECURSIVE trimStart(_)
trimStart(s) ==
  IF s # "" /\ SubSeq(s, 1, 1) = " " THEN trimStart(SubSeq(s, 2, Len(s))) ELSE s

RECURSIVE trimEnd(_)
trimEnd(s) ==
  IF s # "" /\ SubSeq(s, Len(s), Len(s)) = " "
    THEN trimEnd(SubSeq(s, 1, Len(s) - 1))
    ELSE s

trim(s) == trimEnd(trimStart(s))

\* Array.prototype.includes
includes(seq, v) == \E i \in 1..Len(seq) : seq[i] = v

Min(a, b) == IF a < b THEN a ELSE b
Max(a, b) == IF a > b THEN a ELSE b

\* ---- the documents of the runs ------------------------------------------------
\* page counts of the two PDF documents
LongPdfPages == 3
ShortPdfPages == 1

\* documents as the document store lists them (App maps file_name, document_id)
DocA == [name |-> "a.pdf", documentId |-> "d1"]
DocB == [name |-> "b.pdf", documentId |-> "d2"]
DocN == [name |-> "n.txt", documentId |-> "d3"]
\* a File object handed over by the dropzone: a.pdf dropped again
LocalA == [name |-> "a.pdf", documentId |-> undefined]

\* the lists that fetchDocuments() resolves with
Listings == {<<>>, <<DocA, DocB>>, <<DocA, DocB, DocN>>}

\* numPages that pdf.js reports for a source
PageCount(name) == IF name = "b.pdf" THEN ShortPdfPages ELSE LongPdfPages

\* ---- PDFViewer and DocumentViewer ---------------------------------------------
\* numPages is <<>> for null and <<n>> for the number n
ToNumber(v) == IF v = <<>> THEN 0 ELSE v[1]

isPDF(file) == endsWith(toLowerCase(file.name), ".pdf")

isTXT(file) == endsWith(toLowerCase(file.name), ".txt")

\* the file prop PDFViewer passes to react-pdf's Document
pdfSource(file) ==
  IF Truthy(file.documentId)
    THEN "http://localhost:8000/upload/documents/" \o file.documentId \o "/file"
    ELSE "File:" \o file.name

\* no PDFViewer in the tree
NoPDFViewer ==
  [mounted |-> FALSE, numPages |-> <<>>, pageNumber |-> 1, loading |-> TRUE,
   file |-> NoFile, source |-> "", status |-> "none"]

\* useState initial values of a PDFViewer mounted for file; Document starts loading
InitialPDFViewer(file) ==
  [mounted |-> TRUE, numPages |-> <<>>, pageNumber |-> 1, loading |-> TRUE,
   file |-> file, source |-> pdfSource(file), status |-> "loading"]

\* DocumentViewer rendered with file: the PDFViewer it leaves in the tree
DocumentViewer(v, file) ==
  IF file = NoFile \/ ~isPDF(file) THEN NoPDFViewer ELSE
  IF ~v.mounted THEN InitialPDFViewer(file) ELSE
  IF pdfSource(file) = v.source THEN [v EXCEPT !.file = file] ELSE
  [v EXCEPT !.file = file, !.source = pdfSource(file), !.status = "loading"]

onDocumentLoadSuccess(v, numPages) ==
  [v EXCEPT !.numPages = <<numPages>>, !.loading = FALSE, !.status = "loaded"]

onDocumentLoadError(v) == [v EXCEPT !.loading = FALSE, !.status = "failed"]

goToPrevPage(v) == [v EXCEPT !.pageNumber = Max(v.pageNumber - 1, 1)]

goToNextPage(v) ==
  [v EXCEPT !.pageNumber = Min(v.pageNumber + 1, ToNumber(v.numPages))]

PrevPageDisabled(v) == v.pageNumber <= 1

NextPageDisabled(v) == v.pageNumber >= ToNumber(v.numPages)

\* ---- FileUpload -----------------------------------------------------------------
ProgressStep == 10
ProgressCap == 90
ProgressDone == 100

InitialFileUpload == [uploading |-> FALSE, uploadProgress |-> 0]

\* Sidebar renders FileUpload unless it is hidden or showUpload is false
FileUploadRendered(s, a) == ~s.isViewerMaximized /\ a.showUpload

\* useDropzone({disabled: uploading})
DropzoneDisabled(fu) == fu.uploading

\* onDrop up to its first await: the state updates of lines 17-18
onDropStart(fu) == [fu EXCEPT !.uploading = TRUE, !.uploadProgress = 0]

\* the callback of setInterval
progressTick(fu) ==
  [fu EXCEPT !.uploadProgress = Min(fu.uploadProgress + ProgressStep, ProgressCap)]

\* onDrop after fetch resolved: line 37
onDropResponse(fu) == [fu EXCEPT !.uploadProgress = ProgressDone]

\* the catch block of onDrop, and the state updates of the setTimeout callback
onDropEnd(fu) == [fu EXCEPT !.uploading = FALSE, !.uploadProgress = 0]

\* a running onDrop: its position, the files, the selectedFile that the
\* onUploadSuccess of its render closed over, and whether its FileUpload
\* instance is still mounted
UploadTask(id, phase, files, selectedFile, live) ==
  [id |-> id, phase |-> phase, files |-> files, selectedFile |-> selectedFile,
   live |-> live]

\* what the dropzone hands to onDrop
AcceptedFiles == {<<>>, <<LocalA>>}

\* ---- App: document state ----------------------------------------------------------
InitialApp ==
  [uploadedFiles |-> <<>>, selectedFile |-> NoFile, showUpload |-> TRUE,
   selectedDocumentIds |-> <<>>, chatMessages |-> <<>>, isLoadingState |-> TRUE]

\* Sidebar (FileList and the upload toggle) returns null while maximized
SidebarRendered(s) == ~s.isViewerMaximized

\* loadPersistedState after fetchDocuments resolved
documentsLoaded(a, documents) ==
  IF Len(documents) > 0
    THEN [a EXCEPT !.uploadedFiles = documents, !.showUpload = FALSE]
    ELSE a

\* loadPersistedState after fetchChatHistory resolved
historyLoaded(a, messages) ==
  IF Len(messages) > 0 THEN [a EXCEPT !.chatMessages = messages] ELSE a

\* the finally block of loadPersistedState
loadFinally(a) == [a EXCEPT !.isLoadingState = FALSE]

\* handleUploadSuccess after fetchDocuments resolved; selectedFile is the one of
\* the render whose handleUploadSuccess was handed to FileUpload
handleUploadSuccessResolved(a, filesList, selectedFile) ==
  IF selectedFile = NoFile /\ Len(filesList) > 0
    THEN [a EXCEPT !.uploadedFiles = filesList, !.selectedFile = filesList[1],
                   !.showUpload = FALSE]
    ELSE [a EXCEPT !.uploadedFiles = filesList]

\* handleUploadSuccess after fetchDocuments rejected: the local fallback
handleUploadSuccessRejected(a, files, selectedFile) ==
  IF selectedFile = NoFile /\ Len(files) > 0
    THEN [a EXCEPT !.uploadedFiles = a.uploadedFiles \o files,
                   !.selectedFile = files[1], !.showUpload = FALSE]
    ELSE [a EXCEPT !.uploadedFiles = a.uploadedFiles \o files]

handleSelectFile(a, file) == [a EXCEPT !.selectedFile = file, !.showUpload = FALSE]

\* handleDeleteFile after the store's delete resolved, or at once for a file
\* without documentId; selectedFile is the one of the render that was clicked
handleDeleteFileDone(a, fileToDelete, selectedFile) ==
  [a EXCEPT
     !.selectedDocumentIds =
        IF Truthy(fileToDelete.documentId)
          THEN SelectSeq(a.selectedDocumentIds,
                         LAMBDA id : id # fileToDelete.documentId)
          ELSE a.selectedDocumentIds,
     !.uploadedFiles =
        SelectSeq(a.uploadedFiles, LAMBDA f : f.name # fileToDelete.name),
     !.selectedFile =
        IF selectedFile.name = fileToDelete.name THEN NoFile ELSE a.selectedFile]

\* handleDeleteFile after the store's delete rejected: the catch block
handleDeleteFileFailed_RemovesFile(a, fileToDelete, selectedFile) ==
  [a EXCEPT !.uploadedFiles =
              SelectSeq(a.uploadedFiles, LAMBDA f : f.name # fileToDelete.name)]

handleDeleteFileFailed(a, fileToDelete, selectedFile) == a

handleToggleDocument(a, documentId) ==
  [a EXCEPT !.selectedDocumentIds =
              IF includes(a.selectedDocumentIds, documentId)
                THEN SelectSeq(a.selectedDocumentIds, LAMBDA id : id # documentId)
                ELSE Append(a.selectedDocumentIds, documentId)]

\* a pending call of App to the document store: loadPersistedState's
\* ("loadDocuments", "loadHistory"), handleDeleteFile's ("delete") and
\* handleUploadSuccess's ("refresh")
AppCall(op, file, files, selectedFile) ==
  [op |-> op, file |-> file, files |-> files, selectedFile |-> selectedFile]

\* ---- ChatWindow -------------------------------------------------------------------
\* a message of the list; req is not in the code: it names the request that a
\* user message starts and that an assistant or error message answers
Message(role, content, req) == [role |-> role, content |-> content, req |-> req]

NoDocumentMessage == "Please select at least one document to query."

InitialChatWindow == [messages |-> <<>>, input |-> "", loading |-> FALSE]

\* ChatPanel renders ChatWindow only when it is neither hidden nor collapsed
ChatWindowRendered(s) == ~s.isViewerMaximized /\ ~s.isChatCollapsed

\* the effect with deps [initialMessages]
loadInitialMessages(cw, initialMessages) ==
  IF Len(initialMessages) > 0 /\ Len(cw.messages) = 0
    THEN [cw EXCEPT !.messages = initialMessages]
    ELSE cw

\* handleSend reaches sendChatMessage
SendsRequest(cw, selectedDocumentIds) ==
  /\ ~(trim(cw.input) = "" \/ cw.loading)
  /\ ~(Len(selectedDocumentIds) = 0)

\* handleSend up to its await
handleSend_ClearsInput(cw, selectedDocumentIds, req) ==
  IF trim(cw.input) = "" \/ cw.loading THEN cw ELSE
  IF Len(selectedDocumentIds) = 0
    THEN [cw EXCEPT !.input = "",
                    !.messages = Append(cw.messages,
                                        Message("error", NoDocumentMessage, 0))] ELSE
  [cw EXCEPT !.input = "",
             !.messages = Append(cw.messages, Message("user", trim(cw.input), req)),
             !.loading = TRUE]

handleSend(cw, selectedDocumentIds, req) ==
  IF trim(cw.input) = "" \/ cw.loading THEN cw ELSE
  IF Len(selectedDocumentIds) = 0
    THEN [cw EXCEPT !.messages = Append(cw.messages,
                                        Message("error", NoDocumentMessage, 0))] ELSE
  [cw EXCEPT !.input = "",
             !.messages = Append(cw.messages, Message("user", trim(cw.input), req)),
             !.loading = TRUE]

\* handleSend after sendChatMessage resolved, with the finally block
sendResolved(cw, response, req) ==
  [cw EXCEPT !.messages = Append(cw.messages, Message("assistant", response, req)),
             !.loading = FALSE]

\* handleSend after sendChatMessage rejected, with the finally block
sendRejected(cw, errorMessage, req) ==
  [cw EXCEPT !.messages = Append(cw.messages,
                                 Message("error", "Error: " \o errorMessage, req)),
             !.loading = FALSE]

\* handleClearChat after clearChatHistory resolved
clearResolved(cw) == [cw EXCEPT !.messages = <<>>]

\* a pending call of ChatWindow to the conversation service; live is FALSE once
\* the ChatWindow instance that made it is unmounted
ChatCall(op, req, live) == [op |-> op, req |-> req, live |-> live]

\* what the user types, the histories the service returns, its answers
Inputs == {" ", " q "}
Histories == {<<>>, <<Message("user", "q", 0), Message("assistant", "answer", 0)>>}
Response == "answer"
ErrorMessage == "Cannot connect to backend. Make sure the server is running."

\* bounds of the runs: requests sent, messages listed, onDrop invocations and
\* timers alive, files listed, calls of App pending
MaxSends == 2
MaxMessages == 3
MaxUploads == 1
MaxFiles == 3
MaxCalls == 1

\* ---- history -----------------------------------------------------------------
Snapshot == [hook |-> hook, document |-> document, mounted |-> mounted]

Event(op, kind, x, vw) == [op |-> op, kind |-> kind, x |-> x, vw |-> vw]

\* an event about a file of the list
FileEvent(op, file) == [op |-> op, kind |-> null, x |-> 0, vw |-> 0, file |-> file]

SessionOpen(d) == d.mousemove # {} \/ d.mouseup # {}

AppSnapshot == [app |-> app, chatWindow |-> chatWindow, chatCalls |-> chatCalls]

\* preApp after a step whose pre-state is not recorded
NoSnapshot ==
  [app |-> InitialApp, chatWindow |-> InitialChatWindow, chatCalls |-> {}]

\* nothing was taken out of the tree by the latest step
NothingHidden == [op |-> null, messages |-> <<>>, back |-> FALSE]

\* App right after its first render: loadPersistedState has called fetchDocuments
ComponentsInit ==
  /\ app = InitialApp
  /\ appCalls = {AppCall("loadDocuments", NoFile, <<>>, NoFile)}
  /\ chatWindow = InitialChatWindow
  /\ chatCalls = {}
  /\ sendCount = 0
  /\ fileUpload = InitialFileUpload
  /\ uploads = {}
  /\ intervals = {}
  /\ pdfViewer = NoPDFViewer
  /\ preApp = NoSnapshot
  /\ shown = NothingHidden

\* ---- state machine -------------------------------------------------------------
Init ==
  /\ hook = InitialHook
  /\ document = [mousemove |-> {}, mouseup |-> {},
                 cursor |-> UnsetStyle, userSelect |-> UnsetStyle]
  /\ mounted = TRUE
  /\ effectPending = TRUE
  /\ curMove = [id |-> 0, isResizing |-> null]
  /\ effMove = NoHandler
  /\ viewerStyle = getViewerWidth(InitialHook)
  /\ lastEvent = Event("render", null, 0, 0)
  /\ pre = [hook |-> InitialHook,
            document |-> [mousemove |-> {}, mouseup |-> {},
                          cursor |-> UnsetStyle, userSelect |-> UnsetStyle],
            mounted |-> FALSE]
  /\ sessionPrior = [cursor |-> UnsetStyle, userSelect |-> UnsetStyle]
  /\ dragFrom = null
  /\ ComponentsInit

\* the hook called with other initial widths than App's, also out of bounds
HookInitialWidths == {<<320, 400>>, <<100, 800>>, <<600, 250>>}

HookInit ==
  /\ \E w \in HookInitialWidths :
       hook = [InitialHook EXCEPT !.sidebarWidth = w[1], !.chatWidth = w[2]]
  /\ document = [mousemove |-> {}, mouseup |-> {},
                 cursor |-> UnsetStyle, userSelect |-> UnsetStyle]
  /\ mounted = TRUE
  /\ effectPending = TRUE
  /\ curMove = [id |-> 0, isResizing |-> null]
  /\ effMove = NoHandler
  /\ viewerStyle = getViewerWidth(hook)
  /\ lastEvent = Event("render", null, 0, 0)
  /\ pre = [hook |-> hook,
            document |-> [mousemove |-> {}, mouseup |-> {},
                          cursor |-> UnsetStyle, userSelect |-> UnsetStyle],
            mounted |-> FALSE]
  /\ sessionPrior = [cursor |-> UnsetStyle, userSelect |-> UnsetStyle]
  /\ dragFrom = null
  /\ ComponentsInit

\* ---- the children of App after a commit ------------------------------------------
\* an unmounted component instance drops the state updates of its pending work
Orphaned(calls) == {[c EXCEPT !.live = FALSE] : c \in calls}

\* the ChatWindow that ChatPanel leaves in the tree: cw when the instance stays,
\* a new instance after the panel was hidden or collapsed
ChatWindowAfter(cw, new, newApp) ==
  IF ~ChatWindowRendered(new) THEN InitialChatWindow ELSE
  IF ~ChatWindowRendered(hook)
    THEN loadInitialMessages(InitialChatWindow, newApp.chatMessages) ELSE
  IF newApp.chatMessages # app.chatMessages
    THEN loadInitialMessages(cw, newApp.chatMessages)
    ELSE cw

\* the FileUpload that Sidebar leaves in the tree
FileUploadAfter(fu, new, newApp) ==
  IF FileUploadRendered(new, newApp) /\ FileUploadRendered(hook, app)
    THEN fu
    ELSE InitialFileUpload

\* commit of the render with hook state new and App state newApp, after the
\* handler left cw, cc, fu, ups, ivs
Render(new, newApp, cw, cc, fu, ups, ivs) ==
  /\ app' = newApp
  /\ chatWindow' = ChatWindowAfter(cw, new, newApp)
  /\ chatCalls' = IF ChatWindowRendered(hook) /\ ~ChatWindowRendered(new)
                    THEN Orphaned(cc)
                    ELSE cc
  /\ fileUpload' = FileUploadAfter(fu, new, newApp)
  /\ uploads' = IF FileUploadRendered(hook, app) /\ ~FileUploadRendered(new, newApp)
                  THEN Orphaned(ups)
                  ELSE ups
  /\ intervals' = IF FileUploadRendered(hook, app) /\ ~FileUploadRendered(new, newApp)
                    THEN Orphaned(ivs)
                    ELSE ivs
  /\ pdfViewer' = DocumentViewer(pdfViewer, newApp.selectedFile)

\* history of a layout toggle op that leads to hook state new: the messages it
\* takes out of the tree, or that the same toggle took out in the step before
Hides(op, new) ==
  IF ChatWindowRendered(hook) /\ ~ChatWindowRendered(new)
    THEN [op |-> op, messages |-> chatWindow.messages, back |-> FALSE] ELSE
  IF shown.op = op /\ ~shown.back /\ ChatWindowRendered(new)
    THEN [shown EXCEPT !.back = TRUE]
    ELSE NothingHidden

\* the steps whose pre-state preApp records
RecordedOps == {"handleSend", "deleteResolved", "deleteRejected"}

\* a step of a component below App: the layout engine is left alone
ComponentStep(event) ==
  /\ mounted
  /\ ~effectPending
  /\ lastEvent' = event
  /\ shown' = NothingHidden
  /\ pre' = Snapshot
  /\ preApp' = IF event.op \in RecordedOps THEN AppSnapshot ELSE NoSnapshot
  /\ UNCHANGED layoutVars


\* commit of a render caused by a state update of the hook
Commit(new) ==
  /\ hook' = new
  /\ viewerStyle' = getViewerWidth(new)
  /\ curMove' = useCallbackMouseMove(hook, new)
  /\ effectPending' = (new.isResizing # hook.isResizing)

\* React flushes the passive effects of the last commit: the previous
\* effect's cleanup, then the effect body of the committed render
FlushEffects ==
  /\ mounted
  /\ effectPending
  /\ LET cleaned == IF effMove = NoHandler
                      THEN document
                      ELSE useEffectCleanup(document, effMove)
         after == useEffectBody(cleaned, hook.isResizing, curMove)
     IN /\ document' = after
        /\ sessionPrior' = IF hook.isResizing # null
                             THEN [cursor |-> cleaned.cursor,
                                   userSelect |-> cleaned.userSelect]
                             ELSE sessionPrior
  /\ effMove' = curMove
  /\ effectPending' = FALSE
  /\ lastEvent' = Event("effect", null, 0, 0)
  /\ pre' = Snapshot
  /\ UNCHANGED <<hook, mounted, curMove, viewerStyle, dragFrom>>
  /\ preApp' = NoSnapshot
  /\ shown' = NothingHidden
  /\ UNCHANGED appVars

\* mousedown on a rendered Resizer
MouseDown(panelType) ==
  /\ mounted
  /\ ~effectPending
  /\ ResizerRendered(hook, panelType)
  /\ Commit(handleMouseDown(hook, panelType))
  /\ lastEvent' = Event("mousedown", panelType, 0, 0)
  /\ pre' = Snapshot
  /\ dragFrom' = hook.isResizing
  /\ UNCHANGED <<document, mounted, effMove, sessionPrior>>
  /\ preApp' = NoSnapshot
  /\ shown' = NothingHidden
  /\ UNCHANGED appVars

\* the state after every registered mousemove listener has been called
DispatchMouseMove(s, listeners, clientX, innerWidth) ==
  IF \E h \in listeners : handleMouseMove(s, h.isResizing, clientX, innerWidth) # s
    THEN LET h == CHOOSE g \in listeners :
                    handleMouseMove(s, g.isResizing, clientX, innerWidth) # s
         IN handleMouseMove(s, h.isResizing, clientX, innerWidth)
    ELSE s

\* a mousemove event reaches the document
MouseMove(clientX, innerWidth) ==
  /\ ~effectPending
  /\ LET new == DispatchMouseMove(hook, document.mousemove, clientX, innerWidth)
     IN Commit(IF mounted THEN new ELSE hook)
  /\ lastEvent' = Event("mousemove", null, clientX, innerWidth)
  /\ pre' = Snapshot
  /\ UNCHANGED <<document, mounted, effMove, sessionPrior, dragFrom>>
  /\ preApp' = NoSnapshot
  /\ shown' = NothingHidden
  /\ UNCHANGED appVars

\* a mouseup event reaches the document
MouseUp ==
  /\ ~effectPending
  /\ Commit(IF mounted /\ handleMouseUpRef \in document.mouseup
              THEN handleMouseUp(hook)
              ELSE hook)
  /\ lastEvent' = Event("mouseup", null, 0, 0)
  /\ pre' = Snapshot
  /\ UNCHANGED <<document, mounted, effMove, sessionPrior, dragFrom>>
  /\ preApp' = NoSnapshot
  /\ shown' = NothingHidden
  /\ UNCHANGED appVars

\* click on the collapse / expand button of ChatPanel
ToggleChatCollapse ==
  /\ mounted
  /\ ~effectPending
  /\ CollapseButtonRendered(hook)
  /\ Commit(toggleChatCollapse(hook))
  /\ lastEvent' = Event("toggleChatCollapse", null, 0, 0)
  /\ pre' = Snapshot
  /\ UNCHANGED <<document, mounted, effMove, sessionPrior, dragFrom>>
  /\ Render(toggleChatCollapse(hook), app, chatWindow, chatCalls, fileUpload, uploads, intervals)
  /\ shown' = Hides("toggleChatCollapse", toggleChatCollapse(hook))
  /\ preApp' = NoSnapshot
  /\ UNCHANGED <<appCalls, sendCount>>

\* click on the maximize / restore button of ViewerPanel
ToggleViewerMaximize ==
  /\ mounted
  /\ ~effectPending
  /\ Commit(toggleViewerMaximize(hook))
  /\ lastEvent' = Event("toggleViewerMaximize", null, 0, 0)
  /\ pre' = Snapshot
  /\ UNCHANGED <<document, mounted, effMove, sessionPrior, dragFrom>>
  /\ Render(toggleViewerMaximize(hook), app, chatWindow, chatCalls, fileUpload, uploads, intervals)
  /\ shown' = Hides("toggleViewerMaximize", toggleViewerMaximize(hook))
  /\ preApp' = NoSnapshot
  /\ UNCHANGED <<appCalls, sendCount>>

\* the component is removed from the tree: React runs the last effect's cleanup
Unmount ==
  /\ mounted
  /\ ~effectPending
  /\ mounted' = FALSE
  /\ document' = useEffectCleanup(document, effMove)
  /\ lastEvent' = Event("unmount", null, 0, 0)
  /\ pre' = Snapshot
  /\ UNCHANGED <<hook, effectPending, curMove, effMove, viewerStyle, sessionPrior, dragFrom>>
  /\ preApp' = NoSnapshot
  /\ shown' = NothingHidden
  /\ UNCHANGED appVars

\* ---- App: loadPersistedState ------------------------------------------------------
SameApp == Render(hook, app, chatWindow, chatCalls, fileUpload, uploads, intervals)

\* fetchDocuments of loadPersistedState resolves; fetchChatHistory is called
LoadDocumentsResolve(documents) ==
  \E c \in appCalls :
    /\ c.op = "loadDocuments"
    /\ ComponentStep(Event("documentsLoaded", null, Len(documents), 0))
    /\ Render(hook, documentsLoaded(app, documents), chatWindow, chatCalls,
              fileUpload, uploads, intervals)
    /\ appCalls' = (appCalls \ {c}) \cup {AppCall("loadHistory", NoFile, <<>>, NoFile)}
    /\ UNCHANGED sendCount

\* fetchDocuments or fetchChatHistory of loadPersistedState rejects
LoadReject ==
  \E c \in appCalls :
    /\ c.op \in {"loadDocuments", "loadHistory"}
    /\ ComponentStep(Event("loadRejected", null, 0, 0))
    /\ Render(hook, loadFinally(app), chatWindow, chatCalls, fileUpload, uploads,
              intervals)
    /\ appCalls' = appCalls \ {c}
    /\ UNCHANGED sendCount

\* fetchChatHistory of loadPersistedState resolves
LoadHistoryResolve(messages) ==
  \E c \in appCalls :
    /\ c.op = "loadHistory"
    /\ ComponentStep(Event("historyLoaded", null, Len(messages), 0))
    /\ Render(hook, loadFinally(historyLoaded(app, messages)), chatWindow,
              chatCalls, fileUpload, uploads, intervals)
    /\ appCalls' = appCalls \ {c}
    /\ UNCHANGED sendCount

\* the pending calls made by handleDeleteFile and handleUploadSuccess
HandlerCalls == {c \in appCalls : c.op \in {"delete", "refresh"}}

\* ---- App: FileList and the upload toggle ------------------------------------------
\* click on row i of FileList
SelectFile(i) ==
  /\ ComponentStep(Event("selectFile", null, i, 0))
  /\ SidebarRendered(hook)
  /\ i \in 1..Len(app.uploadedFiles)
  /\ Render(hook, handleSelectFile(app, app.uploadedFiles[i]), chatWindow,
            chatCalls, fileUpload, uploads, intervals)
  /\ UNCHANGED <<appCalls, sendCount>>

\* change of the checkbox of row i
ToggleDocument(i) ==
  /\ ComponentStep(Event("toggleDocument", null, i, 0))
  /\ SidebarRendered(hook)
  /\ i \in 1..Len(app.uploadedFiles)
  /\ Render(hook, handleToggleDocument(app, app.uploadedFiles[i].documentId),
            chatWindow, chatCalls, fileUpload, uploads, intervals)
  /\ UNCHANGED <<appCalls, sendCount>>

\* click on the trash button of row i: handleDeleteFile up to its await, or to
\* its end for a file without documentId
DeleteFile(i) ==
  /\ ComponentStep(Event("deleteFile", null, i, 0))
  /\ SidebarRendered(hook)
  /\ i \in 1..Len(app.uploadedFiles)
  /\ LET fileToDelete == app.uploadedFiles[i]
     IN IF Truthy(fileToDelete.documentId)
          THEN /\ Cardinality(HandlerCalls) < MaxCalls
               /\ appCalls' = appCalls \cup
                     {AppCall("delete", fileToDelete, <<>>, app.selectedFile)}
               /\ SameApp
          ELSE /\ Render(hook, handleDeleteFileDone(app, fileToDelete, app.selectedFile),
                         chatWindow, chatCalls, fileUpload, uploads, intervals)
               /\ UNCHANGED appCalls
  /\ UNCHANGED sendCount

\* the store's delete resolves
DeleteResolve ==
  \E c \in appCalls :
    /\ c.op = "delete"
    /\ ComponentStep(FileEvent("deleteResolved", c.file))
    /\ appCalls' = appCalls \ {c}
    /\ Render(hook, handleDeleteFileDone(app, c.file, c.selectedFile), chatWindow,
              chatCalls, fileUpload, uploads, intervals)
    /\ UNCHANGED sendCount

\* the store's delete rejects (deleteDocument rethrows)
DeleteReject ==
  \E c \in appCalls :
    /\ c.op = "delete"
    /\ ComponentStep(FileEvent("deleteRejected", c.file))
    /\ appCalls' = appCalls \ {c}
    /\ Render(hook, handleDeleteFileFailed(app, c.file, c.selectedFile), chatWindow,
              chatCalls, fileUpload, uploads, intervals)
    /\ UNCHANGED sendCount

\* click on the footer button of Sidebar: setShowUpload(!showUpload)
ToggleShowUpload ==
  /\ ComponentStep(Event("toggleShowUpload", null, 0, 0))
  /\ SidebarRendered(hook)
  /\ Render(hook, [app EXCEPT !.showUpload = ~app.showUpload], chatWindow,
            chatCalls, fileUpload, uploads, intervals)
  /\ UNCHANGED <<appCalls, sendCount>>

\* fetchDocuments of handleUploadSuccess resolves
RefreshResolve(filesList) ==
  \E c \in appCalls :
    /\ c.op = "refresh"
    /\ ComponentStep(Event("refreshResolved", null, Len(filesList), 0))
    /\ appCalls' = appCalls \ {c}
    /\ Render(hook, handleUploadSuccessResolved(app, filesList, c.selectedFile),
              chatWindow, chatCalls, fileUpload, uploads, intervals)
    /\ UNCHANGED sendCount

\* fetchDocuments of handleUploadSuccess rejects
RefreshReject ==
  \E c \in appCalls :
    /\ c.op = "refresh"
    /\ Len(app.uploadedFiles) + Len(c.files) <= MaxFiles
    /\ ComponentStep(Event("refreshRejected", null, 0, 0))
    /\ appCalls' = appCalls \ {c}
    /\ Render(hook, handleUploadSuccessRejected(app, c.files, c.selectedFile),
              chatWindow, chatCalls, fileUpload, uploads, intervals)
    /\ UNCHANGED sendCount

\* ---- FileUpload: onDrop ------------------------------------------------------------
UploadIds == 1..MaxUploads

FreeUploadIds == UploadIds \ ({t.id : t \in uploads} \cup {iv.id : iv \in intervals})

IntervalOf(t) == {iv \in intervals : iv.id = t.id}

\* the dropzone calls onDrop(acceptedFiles)
Drop(acceptedFiles) ==
  /\ ComponentStep(Event("drop", null, Len(acceptedFiles), 0))
  /\ FileUploadRendered(hook, app)
  /\ ~DropzoneDisabled(fileUpload)
  /\ IF Len(acceptedFiles) = 0
       THEN UNCHANGED <<fileUpload, uploads, intervals>>
       ELSE \E id \in FreeUploadIds :
              /\ id = CHOOSE free \in FreeUploadIds :
                        \A other \in FreeUploadIds : free <= other
              /\ fileUpload' = onDropStart(fileUpload)
              /\ uploads' = uploads \cup
                   {UploadTask(id, "fetch", acceptedFiles, app.selectedFile, TRUE)}
              /\ intervals' = intervals \cup {[id |-> id, live |-> TRUE]}
  /\ UNCHANGED <<app, appCalls, chatWindow, chatCalls, sendCount, pdfViewer>>

\* a progress timer fires
IntervalTick ==
  \E iv \in intervals :
    /\ ComponentStep(Event("tick", null, iv.id, 0))
    /\ fileUpload' = IF iv.live THEN progressTick(fileUpload) ELSE fileUpload
    /\ UNCHANGED <<app, appCalls, chatWindow, chatCalls, sendCount, uploads,
                   intervals, pdfViewer>>

\* fetch resolves with a response: ok (2xx) or not
FetchResolve(ok) ==
  \E t \in uploads :
    /\ t.phase = "fetch"
    /\ ComponentStep(Event("fetchResolved", null, t.id, 0))
    /\ intervals' = intervals \ IntervalOf(t)
    /\ IF ok
         THEN /\ uploads' = (uploads \ {t}) \cup {[t EXCEPT !.phase = "json"]}
              /\ fileUpload' = IF t.live THEN onDropResponse(fileUpload)
                                         ELSE fileUpload
         ELSE /\ uploads' = uploads \ {t}
              /\ fileUpload' = IF t.live THEN onDropEnd(onDropResponse(fileUpload))
                                         ELSE fileUpload
    /\ UNCHANGED <<app, appCalls, chatWindow, chatCalls, sendCount, pdfViewer>>

\* fetch rejects: the request failed at the network level
FetchReject ==
  \E t \in uploads :
    /\ t.phase = "fetch"
    /\ ComponentStep(Event("fetchRejected", null, t.id, 0))
    /\ uploads' = uploads \ {t}
    /\ fileUpload' = IF t.live THEN onDropEnd(fileUpload) ELSE fileUpload
    /\ UNCHANGED <<app, appCalls, chatWindow, chatCalls, sendCount, intervals,
                   pdfViewer>>

\* response.json() settles: resolved schedules the setTimeout, rejected is caught
JsonSettle(resolved) ==
  \E t \in uploads :
    /\ t.phase = "json"
    /\ ComponentStep(Event("jsonSettled", null, t.id, 0))
    /\ IF resolved
         THEN /\ uploads' = (uploads \ {t}) \cup {[t EXCEPT !.phase = "delay"]}
              /\ UNCHANGED fileUpload
         ELSE /\ uploads' = uploads \ {t}
              /\ fileUpload' = IF t.live THEN onDropEnd(fileUpload) ELSE fileUpload
    /\ UNCHANGED <<app, appCalls, chatWindow, chatCalls, sendCount, intervals,
                   pdfViewer>>

\* the setTimeout callback: onUploadSuccess (handleUploadSuccess up to its
\* await), then the state updates
UploadTimeout ==
  \E t \in uploads :
    /\ t.phase = "delay"
    /\ Cardinality(HandlerCalls) < MaxCalls
    /\ ComponentStep(Event("uploadTimeout", null, t.id, 0))
    /\ appCalls' = appCalls \cup {AppCall("refresh", NoFile, t.files, t.selectedFile)}
    /\ uploads' = uploads \ {t}
    /\ fileUpload' = IF t.live THEN onDropEnd(fileUpload) ELSE fileUpload
    /\ UNCHANGED <<app, chatWindow, chatCalls, sendCount, intervals, pdfViewer>>

\* ---- ChatWindow ---------------------------------------------------------------------
\* the user edits the textarea (disabled while loading)
TypeInput(text) ==
  /\ ComponentStep(Event("typeInput", text, 0, 0))
  /\ ChatWindowRendered(hook)
  /\ ~chatWindow.loading
  /\ chatWindow' = [chatWindow EXCEPT !.input = text]
  /\ UNCHANGED <<app, appCalls, chatCalls, sendCount, fileUpload, uploads,
                 intervals, pdfViewer>>

\* Enter in the textarea or click on the send button
HandleSend ==
  /\ ComponentStep(Event("handleSend", null, 0, 0))
  /\ ChatWindowRendered(hook)
  /\ ~chatWindow.loading
  /\ Len(chatWindow.messages) < MaxMessages
  /\ chatWindow' = handleSend(chatWindow, app.selectedDocumentIds, sendCount + 1)
  /\ IF SendsRequest(chatWindow, app.selectedDocumentIds)
       THEN /\ sendCount < MaxSends
            /\ sendCount' = sendCount + 1
            /\ chatCalls' = chatCalls \cup {ChatCall("send", sendCount + 1, TRUE)}
       ELSE UNCHANGED <<sendCount, chatCalls>>
  /\ UNCHANGED <<app, appCalls, fileUpload, uploads, intervals, pdfViewer>>

\* sendChatMessage resolves with the answer
SendResolve ==
  \E c \in chatCalls :
    /\ c.op = "send"
    /\ ComponentStep(Event("sendResolved", null, c.req, 0))
    /\ chatCalls' = chatCalls \ {c}
    /\ chatWindow' = IF c.live THEN sendResolved(chatWindow, Response, c.req)
                               ELSE chatWindow
    /\ UNCHANGED <<app, appCalls, sendCount, fileUpload, uploads, intervals,
                   pdfViewer>>

\* sendChatMessage throws
SendReject ==
  \E c \in chatCalls :
    /\ c.op = "send"
    /\ ComponentStep(Event("sendRejected", null, c.req, 0))
    /\ chatCalls' = chatCalls \ {c}
    /\ chatWindow' = IF c.live THEN sendRejected(chatWindow, ErrorMessage, c.req)
                               ELSE chatWindow
    /\ UNCHANGED <<app, appCalls, sendCount, fileUpload, uploads, intervals,
                   pdfViewer>>

\* click on the clear button (rendered while the list is not empty); confirmed
\* is the answer to window.confirm
ClearChat(confirmed) ==
  /\ ComponentStep(Event("clearChat", null, 0, 0))
  /\ ChatWindowRendered(hook)
  /\ Len(chatWindow.messages) > 0
  /\ chatCalls' = IF confirmed THEN chatCalls \cup {ChatCall("clear", 0, TRUE)}
                               ELSE chatCalls
  /\ UNCHANGED <<app, appCalls, chatWindow, sendCount, fileUpload, uploads,
                 intervals, pdfViewer>>

\* clearChatHistory settles
ClearSettle(resolved) ==
  \E c \in chatCalls :
    /\ c.op = "clear"
    /\ ComponentStep(Event(IF resolved THEN "clearResolved" ELSE "clearRejected",
                           null, 0, 0))
    /\ chatCalls' = chatCalls \ {c}
    /\ chatWindow' = IF resolved /\ c.live THEN clearResolved(chatWindow)
                                          ELSE chatWindow
    /\ UNCHANGED <<app, appCalls, sendCount, fileUpload, uploads, intervals,
                   pdfViewer>>

\* ---- PDFViewer -----------------------------------------------------------------------
\* react-pdf's Document finishes loading its file prop
DocumentSettle(loaded) ==
  /\ ComponentStep(Event("documentSettled", null, 0, 0))
  /\ pdfViewer.mounted
  /\ pdfViewer.status = "loading"
  /\ pdfViewer' = IF loaded
                    THEN onDocumentLoadSuccess(pdfViewer,
                                               PageCount(pdfViewer.file.name))
                    ELSE onDocumentLoadError(pdfViewer)
  /\ UNCHANGED <<app, appCalls, chatWindow, chatCalls, sendCount, fileUpload,
                 uploads, intervals>>

GoToPrevPage ==
  /\ ComponentStep(Event("goToPrevPage", null, 0, 0))
  /\ pdfViewer.mounted
  /\ ~PrevPageDisabled(pdfViewer)
  /\ pdfViewer' = goToPrevPage(pdfViewer)
  /\ UNCHANGED <<app, appCalls, chatWindow, chatCalls, sendCount, fileUpload,
                 uploads, intervals>>

GoToNextPage ==
  /\ ComponentStep(Event("goToNextPage", null, 0, 0))
  /\ pdfViewer.mounted
  /\ ~NextPageDisabled(pdfViewer)
  /\ pdfViewer' = goToNextPage(pdfViewer)
  /\ UNCHANGED <<app, appCalls, chatWindow, chatCalls, sendCount, fileUpload,
                 uploads, intervals>>

Next ==
  \/ FlushEffects
  \/ \E panelType \in Panels : MouseDown(panelType)
  \/ \E clientX \in PointerXs, innerWidth \in ViewportWidths :
       MouseMove(clientX, innerWidth)
  \/ MouseUp
  \/ ToggleChatCollapse
  \/ ToggleViewerMaximize
  \/ Unmount

Spec == Init /\ [][Next]_vars

\* the hook under any caller's initial widths
HookSpec == HookInit /\ [][Next]_vars

\* the passive effects of a commit are always flushed (React's scheduler)
FairSpec == Spec /\ WF_vars(FlushEffects)

\* ---- the components of App, each with the steps that reach it -----------------------
Rows == 1..Len(app.uploadedFiles)

\* the conversation: ChatWindow, the checkboxes, the two layout toggles
ChatNext ==
  \/ FlushEffects
  \/ LoadDocumentsResolve(<<DocA, DocB>>)
  \/ \E messages \in Histories : LoadHistoryResolve(messages)
  \/ ToggleDocument(1)
  \/ \E text \in Inputs : TypeInput(text)
  \/ HandleSend
  \/ SendResolve
  \/ SendReject
  \/ \E confirmed \in BOOLEAN : ClearChat(confirmed)
  \/ \E resolved \in BOOLEAN : ClearSettle(resolved)
  \/ ToggleChatCollapse
  \/ ToggleViewerMaximize

ChatSpec == Init /\ [][ChatNext]_vars

\* the document list: selection, checkboxes and deletion against the store
FilesNext ==
  \/ FlushEffects
  \/ \E documents \in Listings : LoadDocumentsResolve(documents)
  \/ \E i \in Rows : SelectFile(i)
  \/ \E i \in Rows : ToggleDocument(i)
  \/ \E i \in Rows : DeleteFile(i)
  \/ DeleteResolve
  \/ DeleteReject

FilesSpec == Init /\ [][FilesNext]_vars

\* the checkboxes under uploads, list refreshes and deletions
SelectionNext ==
  \/ FlushEffects
  \/ LoadDocumentsResolve(<<DocA>>)
  \/ \E i \in Rows : ToggleDocument(i)
  \/ \E i \in Rows : DeleteFile(i)
  \/ DeleteResolve
  \/ ToggleShowUpload
  \/ Drop(<<LocalA>>)
  \/ FetchResolve(TRUE)
  \/ JsonSettle(TRUE)
  \/ UploadTimeout
  \/ RefreshResolve(<<DocA>>)
  \/ RefreshReject

SelectionSpec == Init /\ [][SelectionNext]_vars

\* the upload form: onDrop, its timers, and what unmounts the form
UploadNext ==
  \/ FlushEffects
  \/ LoadReject
  \/ \E acceptedFiles \in AcceptedFiles : Drop(acceptedFiles)
  \/ IntervalTick
  \/ \E ok \in BOOLEAN : FetchResolve(ok)
  \/ FetchReject
  \/ \E resolved \in BOOLEAN : JsonSettle(resolved)
  \/ UploadTimeout
  \/ ToggleShowUpload

UploadSpec == Init /\ [][UploadNext]_vars

\* the PDF viewer: file selection, document loads, page navigation
PdfNext ==
  \/ FlushEffects
  \/ \E documents \in Listings : LoadDocumentsResolve(documents)
  \/ \E i \in Rows : SelectFile(i)
  \/ \E loaded \in BOOLEAN : DocumentSettle(loaded)
  \/ GoToPrevPage
  \/ GoToNextPage

PdfSpec == Init /\ [][PdfNext]_vars

\* ---- vocabulary of the properties ----------------------------------------------
Clamp(v, lo, hi) == IF v < lo THEN lo ELSE IF v > hi THEN hi ELSE v

InSidebarRange(v) == v >= MinSidebarWidth /\ v <= MaxSidebarWidth

\* the last step was a mousemove delivered while the mounted hook was resizing kind
MovedDuring(kind) ==
  /\ lastEvent.op = "mousemove"
  /\ pre.mounted
  /\ pre.hook.isResizing = kind

Quiescent == mounted /\ ~effectPending

OverridesInPlace(d) == d.cursor = "col-resize" /\ d.userSelect = "none"

OverridesAbsent(d) == d.cursor # "col-resize" /\ d.userSelect # "none"

\* ---- C1 ---------------------------------------------------------------------------
\* C1: in every reachable state of the application, 200 <= sidebarWidth <= 500
\* and 300 <= chatWidth <= 700.
C1_WidthBounds ==
  /\ hook.sidebarWidth >= 200 /\ hook.sidebarWidth <= 500
  /\ hook.chatWidth >= 300 /\ hook.chatWidth <= 700

\* a move far beyond a bound has been delivered during a drag of each divider
C1_Witness ==
  /\ MovedDuring("chat")
  /\ lastEvent.vw - lastEvent.x > MaxChatWidth
  /\ hook.sidebarWidth # InitialSidebarWidth

\* ---- C2 ---------------------------------------------------------------------------
\* C2: a mouse move during a drag sets the dragged divider's width to
\* the clamped input: clamp(pointerX, 200, 500) for the sidebar,
\* clamp(viewportWidth - pointerX, 300, 700) for the chat.
C2_Original ==
  /\ MovedDuring("sidebar") =>
       hook.sidebarWidth = Clamp(lastEvent.x, MinSidebarWidth, MaxSidebarWidth)
  /\ MovedDuring("chat") =>
       hook.chatWidth = Clamp(lastEvent.vw - lastEvent.x, MinChatWidth, MaxChatWidth)

\* ---- C3 ---------------------------------------------------------------------------
\* C3: a mousedown on a divider sets isResizing to that divider from every state,
\* also when the other divider is being dragged; while the chat divider is
\* dragged a mouse move changes nothing but chatWidth.
C3_BeginDragOverwrites ==
  /\ lastEvent.op = "mousedown" => hook.isResizing = lastEvent.kind
  /\ MovedDuring("chat") =>
       /\ hook.sidebarWidth = pre.hook.sidebarWidth
       /\ hook.isResizing = "chat"
       /\ hook.isChatCollapsed = pre.hook.isChatCollapsed
       /\ hook.isViewerMaximized = pre.hook.isViewerMaximized

\* sidebar drag, then chat drag without a mouseup, then a move that resized the chat
C3_Witness ==
  /\ MovedDuring("chat")
  /\ dragFrom = "sidebar"
  /\ hook.chatWidth # pre.hook.chatWidth

\* ---- C4 ---------------------------------------------------------------------------
\* C4: at most one mousemove and at most one mouseup listener of the hook are
\* registered on the document in every reachable state; after the effect of a
\* new drag has run the only mousemove listener is the current handleMouseMove.
C4_AtMostOneListener ==
  /\ Cardinality(document.mousemove) <= 1
  /\ Cardinality(document.mouseup) <= 1
  /\ (Quiescent /\ hook.isResizing # null) => document.mousemove = {curMove}

\* the effect has run for a drag that replaced a drag of the other divider
C4_Witness ==
  /\ lastEvent.op = "effect"
  /\ hook.isResizing # null
  /\ dragFrom # null
  /\ dragFrom # hook.isResizing
  /\ pre.document.mousemove # {}
  /\ pre.document.mousemove # document.mousemove

\* ---- C5 ---------------------------------------------------------------------------
\* C5: once the component is torn down, no mousemove or mouseup listener of the
\* hook is registered and the col-resize cursor and the text-selection
\* suppression are not in effect, also when it was torn down during a drag.
C5_TeardownCloses ==
  ~mounted =>
    /\ document.mousemove = {}
    /\ document.mouseup = {}
    /\ OverridesAbsent(document)

\* torn down while a drag session was open
C5_Witness ==
  /\ lastEvent.op = "unmount"
  /\ pre.hook.isResizing # null
  /\ SessionOpen(pre.document)
  /\ OverridesInPlace(pre.document)

\* ---- C6 ---------------------------------------------------------------------------
SessionClosed ==
  /\ hook.isResizing = null
  /\ ~effectPending
  /\ ~SessionOpen(document)
  /\ OverridesAbsent(document)

ReleasedDuringDrag ==
  /\ lastEvent.op = "mouseup"
  /\ pre.mounted
  /\ pre.hook.isResizing # null

\* C6: a mouseup delivered during a drag sets isResizing to null, after which the
\* listeners are detached and the overrides removed, and a mouse move that
\* arrives while isResizing is null changes neither width.
C6_ReleaseClosesSession ==
  /\ [](ReleasedDuringDrag => hook.isResizing = null /\ effectPending)
  /\ (ReleasedDuringDrag ~> SessionClosed)
  /\ []((lastEvent.op = "mousemove" /\ pre.hook.isResizing = null) =>
          (hook.sidebarWidth = pre.hook.sidebarWidth
           /\ hook.chatWidth = pre.hook.chatWidth))

\* an in-range move arrives after the session of a finished drag was closed
C6_Witness ==
  /\ lastEvent.op = "mousemove"
  /\ pre.mounted
  /\ pre.hook.isResizing = null
  /\ hook.sidebarWidth # InitialSidebarWidth
  /\ InSidebarRange(lastEvent.x)
  /\ lastEvent.x # hook.sidebarWidth

\* ---- C7 ---------------------------------------------------------------------------
\* C7: in every quiescent state the listeners and the cursor / user-select
\* overrides are in place exactly when isResizing is a divider, and absent
\* exactly when it is null.
C7_SessionOpenIffResizing ==
  Quiescent =>
    IF hook.isResizing # null
      THEN /\ document.mousemove = {curMove}
           /\ curMove.isResizing = hook.isResizing
           /\ document.mouseup = {handleMouseUpRef}
           /\ OverridesInPlace(document)
      ELSE /\ document.mousemove = {}
           /\ document.mouseup = {}
           /\ OverridesAbsent(document)

\* quiescent in the middle of a drag
C7_Witness ==
  /\ Quiescent
  /\ hook.isResizing = "chat"
  /\ lastEvent.op = "effect"

\* ---- C8 ---------------------------------------------------------------------------
\* the last step closed the open drag session
ClosedByLastStep == SessionOpen(pre.document) /\ ~SessionOpen(document)

\* C8: when a drag session is closed, the body's cursor and user-select have
\* the values they had right before that session was opened.
C8_CloseRestoresStyles ==
  ClosedByLastStep =>
    /\ document.cursor = sessionPrior.cursor
    /\ document.userSelect = sessionPrior.userSelect

\* a session was closed by tearing the component down
C8_Witness ==
  /\ ClosedByLastStep
  /\ lastEvent.op = "unmount"
  /\ OverridesInPlace(pre.document)

\* ---- C9 ---------------------------------------------------------------------------
\* the teardown path ran in the last step although no session was open
ClosedWithoutSession ==
  /\ ~SessionOpen(pre.document)
  /\ \/ lastEvent.op = "unmount"
     \/ lastEvent.op = "effect" /\ hook.isResizing = null

\* C9: when the teardown path runs while no session is open, the
\* listener set and the body's cursor / user-select styles stay as they were.
C9_Original ==
  ClosedWithoutSession => document = pre.document

\* ---- C10 --------------------------------------------------------------------------
\* C10: handleMouseUp sets isResizing to null from every state and changes
\* nothing else; applied when isResizing is already null it changes nothing,
\* and applied twice it gives the same state as applied once.
C10_EndDragIdempotent ==
  LET once == handleMouseUp(hook)
  IN /\ once.isResizing = null
     /\ once.sidebarWidth = hook.sidebarWidth
     /\ once.chatWidth = hook.chatWidth
     /\ once.isChatCollapsed = hook.isChatCollapsed
     /\ once.isViewerMaximized = hook.isViewerMaximized
     /\ hook.isResizing = null => once = hook
     /\ handleMouseUp(once) = once
     /\ (lastEvent.op = "mouseup" /\ pre.mounted) =>
          /\ hook.isResizing = null
          /\ hook = [pre.hook EXCEPT !.isResizing = null]

\* a mouseup arrives when no drag is active, after an earlier drag changed a width
C10_Witness ==
  /\ lastEvent.op = "mouseup"
  /\ pre.mounted
  /\ pre.hook.isResizing = null
  /\ hook.sidebarWidth # InitialSidebarWidth

\* ---- C11 --------------------------------------------------------------------------
\* C11: a mouse move received while isResizing is null leaves sidebarWidth,
\* chatWidth, isChatCollapsed, isViewerMaximized and isResizing unchanged, for
\* every pointer x and viewport width.
C11_MoveWhileIdleIsNoOp ==
  /\ (lastEvent.op = "mousemove" /\ pre.hook.isResizing = null) => hook = pre.hook
  /\ \A x \in PointerXs, w \in ViewportWidths :
       handleMouseMove(hook, null, x, w) = hook

\* with a collapsed chat and no drag active, a move that would be in range for both dividers
C11_Witness ==
  /\ lastEvent.op = "mousemove"
  /\ pre.mounted
  /\ pre.hook.isResizing = null
  /\ hook.isChatCollapsed
  /\ hook.chatWidth # InitialChatWidth
  /\ lastEvent.x = 350
  /\ lastEvent.vw = 1000

\* ---- C12 --------------------------------------------------------------------------
\* C12: isResizing changes from a divider to null only in a step that delivers
\* a mouseup; no other step resets it.
C12_OnlyMouseUpEndsDrag ==
  (pre.hook.isResizing # null /\ hook.isResizing = null) => lastEvent.op = "mouseup"

\* a drag that lasted through collapse and maximize toggles is ended by a mouseup
C12_Witness ==
  /\ ReleasedDuringDrag
  /\ hook.isResizing = null
  /\ pre.hook.isViewerMaximized
  /\ pre.hook.isChatCollapsed

\* ---- C13 --------------------------------------------------------------------------
\* C13: toggleChatCollapse applied twice returns isChatCollapsed to its original
\* value, and chatWidth is the same before, between and after the two toggles.
C13_CollapseTwice ==
  LET once == toggleChatCollapse(hook)
      twice == toggleChatCollapse(once)
  IN /\ once.isChatCollapsed # hook.isChatCollapsed
     /\ twice.isChatCollapsed = hook.isChatCollapsed
     /\ once.chatWidth = hook.chatWidth
     /\ twice.chatWidth = hook.chatWidth
     /\ lastEvent.op = "toggleChatCollapse" =>
          /\ hook.isChatCollapsed = ~pre.hook.isChatCollapsed
          /\ hook.chatWidth = pre.hook.chatWidth

\* the chat, dragged to another width and collapsed, has just been expanded again
C13_Witness ==
  /\ lastEvent.op = "toggleChatCollapse"
  /\ pre.hook.isChatCollapsed
  /\ ~hook.isChatCollapsed
  /\ hook.chatWidth # InitialChatWidth

\* ---- C14 --------------------------------------------------------------------------
\* C14: toggleViewerMaximize applied twice restores isViewerMaximized,
\* sidebarWidth, chatWidth and the derived viewer width.
C14_MaximizeTwice ==
  LET once == toggleViewerMaximize(hook)
      twice == toggleViewerMaximize(once)
  IN /\ once.isViewerMaximized # hook.isViewerMaximized
     /\ twice.isViewerMaximized = hook.isViewerMaximized
     /\ once.sidebarWidth = hook.sidebarWidth /\ once.chatWidth = hook.chatWidth
     /\ twice.sidebarWidth = hook.sidebarWidth /\ twice.chatWidth = hook.chatWidth
     /\ getViewerWidth(twice) = getViewerWidth(hook)
     /\ lastEvent.op = "toggleViewerMaximize" =>
          /\ hook.isViewerMaximized = ~pre.hook.isViewerMaximized
          /\ hook.sidebarWidth = pre.hook.sidebarWidth
          /\ hook.chatWidth = pre.hook.chatWidth

\* the viewer has just been restored in a layout whose widths were both dragged
C14_Witness ==
  /\ lastEvent.op = "toggleViewerMaximize"
  /\ pre.hook.isViewerMaximized
  /\ ~hook.isViewerMaximized
  /\ hook.sidebarWidth # InitialSidebarWidth
  /\ hook.chatWidth # InitialChatWidth

\* ---- C15 --------------------------------------------------------------------------
\* C15: toggleChatCollapse changes only isChatCollapsed, toggleViewerMaximize
\* changes only isViewerMaximized, and mousedown, mousemove and mouseup never
\* change isChatCollapsed or isViewerMaximized.
C15_FlagsOrthogonal ==
  /\ lastEvent.op = "toggleChatCollapse" =>
       hook = [pre.hook EXCEPT !.isChatCollapsed = ~@]
  /\ lastEvent.op = "toggleViewerMaximize" =>
       hook = [pre.hook EXCEPT !.isViewerMaximized = ~@]
  /\ lastEvent.op \in {"mousedown", "mousemove", "mouseup"} =>
       /\ hook.isChatCollapsed = pre.hook.isChatCollapsed
       /\ hook.isViewerMaximized = pre.hook.isViewerMaximized

\* a drag is started while the chat is collapsed
C15_Witness ==
  /\ lastEvent.op = "mousedown"
  /\ hook.isResizing = "sidebar"
  /\ hook.isChatCollapsed
  /\ dragFrom = null

\* ---- C16 --------------------------------------------------------------------------
\* C16: the viewer width is "100%" in every state where isViewerMaximized is
\* true, whatever sidebarWidth, chatWidth and isChatCollapsed are; the rendered
\* width is a function of the state alone.
C16_MaximizedIsFullWidth ==
  /\ viewerStyle = getViewerWidth(hook)
  /\ hook.isViewerMaximized => viewerStyle = <<"100%">>

\* maximized with a collapsed chat and a sidebar width outside the bounds
C16_Witness ==
  /\ hook.isViewerMaximized
  /\ hook.isChatCollapsed
  /\ ~InSidebarRange(hook.sidebarWidth)
  /\ lastEvent.op = "toggleViewerMaximize"

\* ---- C17 --------------------------------------------------------------------------
\* the pixel value of a width expression when 100% is total pixels
CalcValue(expr, total) ==
  IF Len(expr) = 1 THEN total ELSE total - expr[2] - expr[4]

\* C17: when isViewerMaximized is false the viewer width is
\* total - sidebarWidth - (50 if isChatCollapsed, else chatWidth), also for
\* widths outside the bounds; with widths 320 and 420 it is total - 320 - 420,
\* and total - 320 - 50 once the chat is collapsed.
C17_ViewerWidthFormula ==
  ~hook.isViewerMaximized =>
    \A total \in ViewportWidths :
      /\ CalcValue(viewerStyle, total) =
           total - hook.sidebarWidth - (IF hook.isChatCollapsed THEN 50 ELSE hook.chatWidth)
      /\ (hook.sidebarWidth = 320 /\ hook.chatWidth = 420 /\ ~hook.isChatCollapsed) =>
           CalcValue(viewerStyle, total) = total - 320 - 420
      /\ (hook.sidebarWidth = 320 /\ hook.isChatCollapsed) =>
           CalcValue(viewerStyle, total) = total - 320 - 50

\* the chat has just been collapsed in a layout whose chat width is out of bounds
C17_Witness ==
  /\ lastEvent.op = "toggleChatCollapse"
  /\ hook.isChatCollapsed
  /\ ~hook.isViewerMaximized
  /\ hook.chatWidth > MaxChatWidth

\* ---- C18 --------------------------------------------------------------------------
\* C18: the width subtracted for the chat region in the viewer-width expression
\* equals the width at which ChatPanel renders the chat region.
C18_Original ==
  ~hook.isViewerMaximized => viewerStyle[4] = ChatPanelWidth(hook)

\* ---- C19 --------------------------------------------------------------------------
\* C19: no mousedown on a divider happens in a state where isViewerMaximized is
\* true, and none on the chat divider in a state where isChatCollapsed is true.
C19_NoDragStartWhenSuppressed ==
  lastEvent.op = "mousedown" =>
    /\ ~pre.hook.isViewerMaximized
    /\ lastEvent.kind = "chat" => ~pre.hook.isChatCollapsed

\* the sidebar divider is grabbed while the chat is collapsed, after a maximize and restore
C19_Witness ==
  /\ lastEvent.op = "mousedown"
  /\ lastEvent.kind = "sidebar"
  /\ pre.hook.isChatCollapsed
  /\ pre.hook.chatWidth # InitialChatWidth

\* ---- C20 --------------------------------------------------------------------------
\* C20: the layout state is created with sidebarWidth = 320, chatWidth = 420,
\* isChatCollapsed = false, isViewerMaximized = false and isResizing = null.
C20_InitialLayout ==
  lastEvent.op = "render" =>
    /\ hook.sidebarWidth = 320
    /\ hook.chatWidth = 420
    /\ hook.isChatCollapsed = FALSE
    /\ hook.isViewerMaximized = FALSE
    /\ hook.isResizing = null

\* the state right after the first render, before the first effect
C20_Witness ==
  /\ lastEvent.op = "render"
  /\ mounted
  /\ effectPending
  /\ ~SessionOpen(document)

\* ---- C21 --------------------------------------------------------------------------
\* C21: in every state where isViewerMaximized is true, sidebarWidth and
\* chatWidth do not change, also when a drag started before the viewer was
\* maximized is still active.
C21_Original ==
  (pre.mounted /\ pre.hook.isViewerMaximized /\ hook.isViewerMaximized) =>
    /\ hook.sidebarWidth = pre.hook.sidebarWidth
    /\ hook.chatWidth = pre.hook.chatWidth

\* ---- C22 --------------------------------------------------------------------------
\* the requests to the conversation service that have not completed
SendsInFlight == {c \in chatCalls : c.op = "send"}

\* C22: the loading flag of the ChatWindow on screen is true exactly while a
\* chat request is in flight, and at most one request is outstanding at any
\* time.
C22_Original ==
  /\ Cardinality(SendsInFlight) <= 1
  /\ ChatWindowRendered(hook) => (chatWindow.loading <=> SendsInFlight # {})

\* ---- C23 --------------------------------------------------------------------------
\* the latest step was handleSend with non-empty input and no document selected
SentWithoutDocument ==
  /\ lastEvent.op = "handleSend"
  /\ trim(preApp.chatWindow.input) # ""
  /\ Len(preApp.app.selectedDocumentIds) = 0

\* C23: handleSend with non-empty input while no document is selected appends
\* exactly one error message ('Please select at least one document to
\* query.'), sends no request, keeps the input text and leaves loading false.
C23_NoDocumentSelected ==
  SentWithoutDocument =>
    LET before == preApp.chatWindow.messages
        after == chatWindow.messages
    IN /\ Len(after) = Len(before) + 1
       /\ SubSeq(after, 1, Len(before)) = before
       /\ after[Len(after)].role = "error"
       /\ after[Len(after)].content = "Please select at least one document to query."
       /\ chatCalls = preApp.chatCalls
       /\ chatWindow.input = preApp.chatWindow.input
       /\ ~chatWindow.loading

C23_Witness ==
  /\ SentWithoutDocument
  /\ Len(preApp.chatWindow.messages) > 0
  /\ chatWindow.input = " q "

\* ---- C24 --------------------------------------------------------------------------
\* C24: in the message list, each assistant message is immediately preceded by
\* the user message it answers, under any interleaving of send, response
\* arrival and clear-chat.
C24_Original ==
  \A i \in 1..Len(chatWindow.messages) :
    chatWindow.messages[i].role = "assistant" =>
      /\ i > 1
      /\ chatWindow.messages[i - 1].role = "user"
      /\ chatWindow.messages[i - 1].req = chatWindow.messages[i].req

\* ---- C25 --------------------------------------------------------------------------
\* C25: after toggleChatCollapse applied twice, or toggleViewerMaximize applied
\* twice, the chat panel shows the same message list as before the two toggles.
C25_Original == shown.back => chatWindow.messages = shown.messages

\* ---- C26 --------------------------------------------------------------------------
\* C26: after handleDeleteFile completed successfully for a file F, F is not
\* in uploadedFiles, F's document ID is not in selectedDocumentIds and
\* selectedFile does not refer to F.
C26_Original ==
  lastEvent.op = "deleteResolved" =>
    /\ ~includes(app.uploadedFiles, lastEvent.file)
    /\ ~includes(app.selectedDocumentIds, lastEvent.file.documentId)
    /\ app.selectedFile # lastEvent.file

\* ---- C27 --------------------------------------------------------------------------
\* C27: when the store's delete request fails, handleDeleteFile leaves
\* uploadedFiles, selectedFile and selectedDocumentIds unchanged; a file that
\* was listed stays listed.
C27_FailedDeleteChangesNothing ==
  lastEvent.op = "deleteRejected" =>
    /\ app.uploadedFiles = preApp.app.uploadedFiles
    /\ app.selectedFile = preApp.app.selectedFile
    /\ app.selectedDocumentIds = preApp.app.selectedDocumentIds
    /\ includes(preApp.app.uploadedFiles, lastEvent.file)
         => includes(app.uploadedFiles, lastEvent.file)

C27_Witness ==
  /\ lastEvent.op = "deleteRejected"
  /\ includes(app.uploadedFiles, lastEvent.file)
  /\ app.selectedFile = lastEvent.file
  /\ includes(app.selectedDocumentIds, lastEvent.file.documentId)

\* ---- C28 --------------------------------------------------------------------------
\* C28: every entry of selectedDocumentIds is the document ID of a file that
\* is in uploadedFiles, and appears at most once.
C28_Original ==
  \A i \in 1..Len(app.selectedDocumentIds) :
    /\ \E j \in 1..Len(app.uploadedFiles) :
         app.uploadedFiles[j].documentId = app.selectedDocumentIds[i]
    /\ \A k \in 1..Len(app.selectedDocumentIds) :
         app.selectedDocumentIds[k] = app.selectedDocumentIds[i] => k = i

\* ---- C29 --------------------------------------------------------------------------
\* no onDrop of the FileUpload on screen is between its start and its end
NoUploadAttempt == FileUploadRendered(hook, app) /\ ~\E t \in uploads : t.live

\* C29: after an upload attempt ended, however it ended, the progress timer is
\* stopped, uploading is false and uploadProgress is 0 until the next upload
\* starts; no second upload starts while one is running.
C29_Original ==
  /\ NoUploadAttempt =>
       /\ ~\E iv \in intervals : iv.live
       /\ ~fileUpload.uploading
       /\ fileUpload.uploadProgress = 0
  /\ Cardinality({t \in uploads : t.live}) <= 1

\* ---- C30 --------------------------------------------------------------------------
\* the Document of the PDFViewer in the tree shows the file that is selected
DocumentDisplayed == pdfViewer.mounted /\ pdfViewer.status = "loaded"

\* C30: whenever the page count of the displayed document is known,
\* 1 <= pageNumber <= numPages, after any sequence of page steps, document
\* loads and changes of the selected file to a PDF of another length.
C30_Original ==
  DocumentDisplayed =>
    /\ 1 <= pdfViewer.pageNumber
    /\ pdfViewer.pageNumber <= ToNumber(pdfViewer.numPages)

====
